---- MODULE Spec2Model ----
(***************************************************************************)
(* Path redirection engine of the File Redirection Fixup                   *)
(* (fixups/FileRedirectionFixup/PathRedirection.cpp).                      *)
(*                                                                         *)
(* Paths are strings; a string is a sequence of one-character strings, so  *)
(* SubSeq(s, i, i) is the character at (1-based) position i.  A C pointer  *)
(* into a string is modelled by the suffix it points at.                   *)
(***************************************************************************)
EXTENDS Integers, Sequences, FiniteSets, TLC

VARIABLES
    fs,       \* the filesystem: [dirs : set of keys, files : key -> content]
    cfg,      \* which configuration InitializeConfiguration loaded
    th,       \* per thread: the ShouldRedirect call it is in (position, locals, result)
    pin,      \* SpecPure: the input string; SpecConc: the path of the two calls
    pout      \* SpecPure: the functions applied to pin so far, with their values

vars == <<fs, cfg, th, pin, pout>>

(***************************************************************************)
(* Characters and strings                                                  *)
(***************************************************************************)

\* The null pointer passed as a path argument.
NULL == "<NULL>"

LowerCaseOf ==
    [A |-> "a", B |-> "b", C |-> "c", D |-> "d", E |-> "e", F |-> "f", G |-> "g",
     H |-> "h", I |-> "i", J |-> "j", K |-> "k", L |-> "l", M |-> "m", N |-> "n",
     O |-> "o", P |-> "p", Q |-> "q", R |-> "r", S |-> "s", T |-> "t", U |-> "u",
     V |-> "v", W |-> "w", X |-> "x", Y |-> "y", Z |-> "z"]

towlower(c) == IF c \in DOMAIN LowerCaseOf THEN LowerCaseOf[c] ELSE c

iswalpha(c) == towlower(c) \in {LowerCaseOf[k] : k \in DOMAIN LowerCaseOf}

At(s, i) == IF i >= 1 /\ i <= Len(s) THEN SubSeq(s, i, i) ELSE ""

\* s.substr(pos) with a 0-based pos, and s.substr(pos, n)
SubstrFrom(s, pos) == SubSeq(s, pos + 1, Len(s))

Substr(s, pos, n) == SubSeq(s, pos + 1, IF pos + n > Len(s) THEN Len(s) ELSE pos + n)

StartsWith(s, prefix) ==
    Len(s) >= Len(prefix) /\ SubSeq(s, 1, Len(prefix)) = prefix

\* The least member of a non-empty set of numbers.
Min(S) == CHOOSE i \in S : \A j \in S : i <= j

\* The greatest member of a non-empty set of numbers.
Max(S) == CHOOSE i \in S : \A j \in S : i >= j

\* transform(begin, end, begin, towlower): each character on its own, the two
\* halves of the string one after the other.
RECURSIVE ToLower(_)
ToLower(s) ==
    IF Len(s) <= 1 THEN towlower(s)
    ELSE ToLower(SubSeq(s, 1, Len(s) \div 2)) \o ToLower(SubSeq(s, Len(s) \div 2 + 1, Len(s)))

\* s.find(needle) != npos
Contains(s, needle) ==
    \E i \in 1..(Len(s) - Len(needle) + 1) : SubSeq(s, i, i + Len(needle) - 1) = needle

\* _wcsicmp(a, b) == 0
wcsicmpEq(a, b) == ToLower(a) = ToLower(b)

(***************************************************************************)
(* psf utilities used by the engine (utilities.h, known_folders.h)         *)
(***************************************************************************)

is_path_separator(c) == c \in {"\\", "/"}

path_compare(lhs, rhs) ==
    \/ towlower(lhs) = towlower(rhs)
    \/ is_path_separator(lhs) /\ is_path_separator(rhs)

RECURSIVE remove_trailing_path_separators(_)
remove_trailing_path_separators(s) ==
    IF s # "" /\ is_path_separator(At(s, Len(s)))
    THEN remove_trailing_path_separators(SubSeq(s, 1, Len(s) - 1))
    ELSE s

\* psf::dos_path_type of a string
path_type(p) ==
    IF StartsWith(p, "\\\\?\\") THEN "root_local_device"
    ELSE IF is_path_separator(At(p, 1)) THEN
        IF is_path_separator(At(p, 2)) THEN
            IF At(p, 3) \in {".", "?"} /\ is_path_separator(At(p, 4))
            THEN "local_device" ELSE "unc_absolute"
        ELSE "rooted"
    ELSE IF iswalpha(At(p, 1)) /\ At(p, 2) = ":" THEN
        IF is_path_separator(At(p, 3)) THEN "drive_absolute" ELSE "drive_relative"
    ELSE IF p # "" THEN "relative" ELSE "unknown"

(***************************************************************************)
(* GetFullPathNameW, as psf::full_path calls it: the canonical absolute    *)
(* form of a path (separators folded to '\', "." and ".." resolved, a      *)
(* relative path taken from the current directory, a trailing separator    *)
(* kept).                                                                  *)
(***************************************************************************)

\* The process's current directory.
CurrentDirectory == "C:\\Program Files\\WindowsApps\\App\\data"

\* The components of s, appended to acc: the non-empty runs between path
\* separators.
RECURSIVE SplitPath(_, _)
SplitPath(s, acc) ==
    IF s = "" THEN acc
    ELSE LET separators == {i \in 1..Len(s) : is_path_separator(At(s, i))}
             end        == IF separators = {} THEN Len(s) + 1 ELSE Min(separators)
             component  == SubSeq(s, 1, end - 1)
         IN  SplitPath(SubSeq(s, end + 1, Len(s)),
                       IF component = "" THEN acc ELSE Append(acc, component))

\* "." dropped, ".." drops the component before it (never the first `keep`).
RECURSIVE ResolveDots(_, _, _)
ResolveDots(comps, acc, keep) ==
    IF comps = <<>> THEN acc
    ELSE LET c == Head(comps) IN
         IF c = "." THEN ResolveDots(Tail(comps), acc, keep)
         ELSE IF c = ".." THEN
              ResolveDots(Tail(comps),
                          IF Len(acc) > keep THEN SubSeq(acc, 1, Len(acc) - 1) ELSE acc,
                          keep)
         ELSE ResolveDots(Tail(comps), Append(acc, c), keep)

RECURSIVE JoinPath(_)
JoinPath(comps) ==
    IF comps = <<>> THEN ""
    ELSE IF Len(comps) = 1 THEN Head(comps)
    ELSE Head(comps) \o "\\" \o JoinPath(Tail(comps))

\* root \o the resolved components of rest; the trailing separator of the input is kept.
Canonical(root, rest, keep) ==
    LET comps == ResolveDots(SplitPath(rest, <<>>), <<>>, keep)
        body  == root \o JoinPath(comps)
    IN  IF /\ rest # ""
           /\ is_path_separator(At(rest, Len(rest)))
           /\ ~is_path_separator(At(body, Len(body)))
        THEN body \o "\\" ELSE body

full_path(p) ==
    LET t == path_type(p) IN
    CASE t = "drive_absolute" -> Canonical(SubSeq(p, 1, 2) \o "\\", SubstrFrom(p, 3), 0)
      [] t = "drive_relative" ->
            IF towlower(At(p, 1)) = towlower(At(CurrentDirectory, 1))
            THEN Canonical(SubSeq(CurrentDirectory, 1, 3),
                           SubstrFrom(CurrentDirectory, 3) \o "\\" \o SubstrFrom(p, 2), 0)
            ELSE Canonical(SubSeq(p, 1, 2) \o "\\", SubstrFrom(p, 2), 0)
      [] t = "rooted" -> Canonical(SubSeq(CurrentDirectory, 1, 3), p, 0)
      [] t = "relative" ->
            Canonical(SubSeq(CurrentDirectory, 1, 3),
                      SubstrFrom(CurrentDirectory, 3) \o "\\" \o p, 0)
      [] t = "local_device" -> Canonical("\\\\" \o At(p, 3) \o "\\", SubstrFrom(p, 4), 1)
      [] t = "unc_absolute" -> Canonical("\\\\", SubstrFrom(p, 2), 2)
      [] OTHER -> p

(***************************************************************************)
(* Path Normalizer                                                         *)
(***************************************************************************)

IsColonColonGuid(path) ==
    Len(path) > 39 /\ At(path, 1) = ":" /\ At(path, 2) = ":" /\ At(path, 3) = "{"

IsBlobColon(path) == StartsWith(path, "blob:") \/ StartsWith(path, "BLOB:")

\* Printable ASCII, 0x20 .. 0x7E, in code order ('?' stands in at 0x60, a
\* character a string of this module cannot hold).
PrintableAscii ==
    " !\"#$%&'()*+,-./0123456789:;<=>?@ABCDEFGHIJKLMNOPQRSTUVWXYZ[\\]^_?abcdefghijklmnopqrstuvwxyz{|}~"

\* static_cast<char>(ii): the character with code ii.  Codes outside printable
\* ASCII are not told apart: they all read as '?'.
CharOfCode(ii) == IF ii >= 32 /\ ii <= 126 THEN At(PrintableAscii, ii - 31) ELSE "?"

HexDigits == "0123456789abcdef"

IsHexDigit(c) == c # "" /\ \E i \in 1..16 : At(HexDigits, i) = towlower(c)

HexDigitValue(c) == (CHOOSE i \in 1..16 : At(HexDigits, i) = towlower(c)) - 1

\* The number of values of a char: static_cast<char>(ii) keeps ii modulo this,
\* which is all of ii the model keeps.
CharRange == 256

\* swscanf_s(two, L"%x", &ii): the value stored in ii, which keeps its old value
\* when no hexadecimal digit is read.  %x skips leading white space.
ScanHex(two, ii) ==
    LET t == IF At(two, 1) = " " THEN SubstrFrom(two, 1) ELSE two IN
    IF At(t, 1) = "+" /\ IsHexDigit(At(t, 2)) THEN HexDigitValue(At(t, 2))
    ELSE IF At(t, 1) = "-" /\ IsHexDigit(At(t, 2))
    THEN (CharRange - HexDigitValue(At(t, 2))) % CharRange
    ELSE IF ~IsHexDigit(At(t, 1)) THEN ii
    ELSE IF IsHexDigit(At(t, 2)) THEN 16 * HexDigitValue(At(t, 1)) + HexDigitValue(At(t, 2))
    ELSE HexDigitValue(At(t, 1))

\* The loop of UrlDecode from 0-based index i, with ii the current value of the
\* local of that name.
\* The characters up to the next '%' are copied in one go.
RECURSIVE UrlDecodeLoop(_, _, _, _)
UrlDecodeLoop(str, i, ii, ret) ==
    IF i >= Len(str) THEN ret
    ELSE LET percents == {j \in i..(Len(str) - 1) : At(str, j + 1) = "%"} IN
         IF percents = {} THEN ret \o SubstrFrom(str, i)
         ELSE LET at == Min(percents)
                  v  == ScanHex(Substr(str, at + 1, 2), ii)
              IN  UrlDecodeLoop(str, at + 3, v,
                                ret \o Substr(str, i, at - i) \o CharOfCode(v))

\* ii is declared without an initial value: `uninit` is what it happens to hold.
UrlDecode(str, uninit) == UrlDecodeLoop(str, 0, uninit, "")

StripFileColonSlash(old_string) ==
    IF \/ StartsWith(old_string, "file:\\")
       \/ StartsWith(old_string, "file:/")
       \/ StartsWith(old_string, "FILE:\\")
       \/ StartsWith(old_string, "FILE:/")
    THEN SubstrFrom(old_string, 6)
    ELSE old_string

\* normalized_path: full_path, and drive_absolute_path as the number of characters
\* of full_path before the place it points at (NoDriveAbsolute: the null pointer).
NoDriveAbsolute == -1

NormalizedPathOf(full, offset) == [full_path |-> full, drive_absolute_path |-> offset]

EmptyNormalizedPath == NormalizedPathOf("", NoDriveAbsolute)

HasDriveAbsolute(np) == np.drive_absolute_path # NoDriveAbsolute

\* The string np.drive_absolute_path points at.
DriveAbsolute(np) == SubstrFrom(np.full_path, np.drive_absolute_path)

NormalizePathImpl(path) ==
    LET pathType == path_type(path) IN
    IF pathType = "unknown" THEN EmptyNormalizedPath
    ELSE
      LET full  == IF pathType = "root_local_device" THEN path ELSE full_path(path)
          type2 == IF pathType = "root_local_device" THEN pathType ELSE path_type(full)
      IN  CASE type2 = "drive_absolute" -> NormalizedPathOf(full, 0)
            [] type2 \in {"local_device", "root_local_device"} ->
                  IF path_type(SubstrFrom(full, 4)) = "drive_absolute"
                  THEN NormalizedPathOf(full, 4)
                  ELSE NormalizedPathOf(full, NoDriveAbsolute)
            [] type2 = "unc_absolute" -> NormalizedPathOf(full, NoDriveAbsolute)
            [] OTHER -> EmptyNormalizedPath

\* Mutant of NormalizePath: without the tests for shell items and blob values.
NormalizePathWithoutShellItems(path, uninit) ==
    IF path # NULL /\ path # ""
    THEN NormalizePathImpl(StripFileColonSlash(UrlDecode(path, uninit)))
    ELSE NormalizePathImpl(".")

NormalizePath(path, uninit) ==
    IF path # NULL /\ path # "" THEN
        IF IsColonColonGuid(path) THEN NormalizedPathOf(path, NoDriveAbsolute)
        ELSE IF IsBlobColon(path) THEN NormalizedPathOf(path, NoDriveAbsolute)
        ELSE NormalizePathImpl(StripFileColonSlash(UrlDecode(path, uninit)))
    ELSE NormalizePathImpl(".")

(***************************************************************************)
(* Identity facts and the VFS mapping table (InitializePaths)              *)
(***************************************************************************)

\* std::filesystem::path::operator/ on native strings.
PathAppend(a, b) ==
    IF b = "" THEN
        (IF a = "" \/ is_path_separator(At(a, Len(a))) THEN a ELSE a \o "\\")
    ELSE IF iswalpha(At(b, 1)) /\ At(b, 2) = ":" THEN b
    ELSE IF is_path_separator(At(b, 1)) THEN
        (IF iswalpha(At(a, 1)) /\ At(a, 2) = ":" THEN SubSeq(a, 1, 2) \o b ELSE b)
    ELSE IF a = "" \/ is_path_separator(At(a, Len(a))) \/ (Len(a) = 2 /\ At(a, 2) = ":")
        THEN a \o b
    ELSE a \o "\\" \o b

\* What the runtime answers: PSFQueryPackageRootPath, PSFQueryFinalPackageRootPath,
\* psf::current_package_family_name, psf::known_folder.
PSFQueryPackageRootPath == "C:\\Program Files\\WindowsApps\\App"

\* The final path name of the package root is a \\?\ path, as
\* GetFinalPathNameByHandle gives it.
PSFQueryFinalPackageRootPath == "\\\\?\\C:\\Program Files\\WindowsApps\\App"

current_package_family_name == "App_pfn"

known_folder ==
    [SystemX86             |-> "C:\\Windows\\SysWOW64",
     System                |-> "C:\\Windows\\System32",
     ProgramFilesX86       |-> "C:\\Program Files (x86)",
     ProgramFilesCommonX86 |-> "C:\\Program Files (x86)\\Common Files",
     ProgramFilesX64       |-> "C:\\Program Files",
     ProgramFilesCommonX64 |-> "C:\\Program Files\\Common Files",
     Windows               |-> "C:\\Windows",
     ProgramData           |-> "C:\\ProgramData",
     LocalAppData          |-> "C:\\Users\\me\\AppData\\Local",
     RoamingAppData        |-> "C:\\Users\\me\\AppData\\Roaming",
     Fonts                 |-> "C:\\Windows\\Fonts",
     PublicDesktop         |-> "C:\\Users\\Public\\Desktop",
     CommonPrograms        |-> "C:\\ProgramData\\Microsoft\\Windows\\Start Menu\\Programs",
     LocalAppDataLow       |-> "C:\\Users\\me\\AppData\\LocalLow"]

g_packageRootPath == remove_trailing_path_separators(ToLower(PSFQueryPackageRootPath))

g_packageVfsRootPath == PathAppend(g_packageRootPath, "VFS")

g_finalPackageRootPath == remove_trailing_path_separators(PSFQueryFinalPackageRootPath)

g_redirectRootPath ==
    PathAppend(PathAppend(PathAppend(known_folder.LocalAppData, "Packages"),
                          current_package_family_name),
               "LocalCache\\Local\\VFS")

g_writablePackageRootPath ==
    PathAppend(PathAppend(PathAppend(known_folder.LocalAppData, "Packages"),
                          current_package_family_name),
               "LocalCache\\Local\\Microsoft\\WritablePackageRoot")

vfs_folder_mapping(real, shadow) == [path |-> real, package_vfs_relative_path |-> shadow]

\* The table of a 64-bit build, in push_back order.
g_vfsFolderMappings ==
    << vfs_folder_mapping(known_folder.SystemX86,             "SystemX86"),
       vfs_folder_mapping(known_folder.ProgramFilesX86,       "ProgramFilesX86"),
       vfs_folder_mapping(known_folder.ProgramFilesCommonX86, "ProgramFilesCommonX86"),
       vfs_folder_mapping(known_folder.System,                "SystemX64"),
       vfs_folder_mapping(known_folder.ProgramFilesX64,       "ProgramFilesX64"),
       vfs_folder_mapping(known_folder.ProgramFilesCommonX64, "ProgramFilesCommonX64"),
       vfs_folder_mapping(known_folder.Windows,               "Windows"),
       vfs_folder_mapping(known_folder.ProgramData,           "Common AppData"),
       vfs_folder_mapping(known_folder.System,                "System"),
       vfs_folder_mapping(PathAppend(known_folder.System, "catroot"),      "AppVSystem32Catroot"),
       vfs_folder_mapping(PathAppend(known_folder.System, "catroot2"),     "AppVSystem32Catroot2"),
       vfs_folder_mapping(PathAppend(known_folder.System, "drivers\\etc"), "AppVSystem32DriversEtc"),
       vfs_folder_mapping(PathAppend(known_folder.System, "driverstore"),  "AppVSystem32Driverstore"),
       vfs_folder_mapping(PathAppend(known_folder.System, "logfiles"),     "AppVSystem32Logfiles"),
       vfs_folder_mapping(PathAppend(known_folder.System, "spool"),        "AppVSystem32Spool"),
       vfs_folder_mapping(known_folder.LocalAppData,          "Local AppData"),
       vfs_folder_mapping(known_folder.RoamingAppData,        "AppData"),
       vfs_folder_mapping(known_folder.Fonts,                 "Fonts"),
       vfs_folder_mapping(known_folder.PublicDesktop,         "Common Desktop"),
       vfs_folder_mapping(known_folder.CommonPrograms,        "Common Programs"),
       vfs_folder_mapping(known_folder.LocalAppDataLow,       "LOCALAPPDATALOW") >>

(***************************************************************************)
(* VFS mapping: DeVirtualizePath and VirtualizePath                        *)
(***************************************************************************)

\* std::equal(basePath.begin(), basePath.end(), path, psf::path_compare{}): the
\* terminating null of a shorter path compares unequal to every character.
path_relative_to(path, basePath) ==
    /\ Len(path) >= Len(basePath)
    /\ \A i \in 1..Len(basePath) : path_compare(At(basePath, i), At(path, i))

\* The companion queries: is fileName under the user's local, roaming profile
\* folder.
IsUnderUserAppDataLocal(fileName) ==
    path_relative_to(fileName, known_folder.LocalAppData)

IsUnderUserAppDataRoaming(fileName) ==
    path_relative_to(fileName, known_folder.RoamingAppData)

\* Mutant of DeVirtualizeBreaksAt: the loop breaks at the first entry whose
\* shadow name is a string prefix of packageRelativePath.
DeVirtualizeBreaksAtPrefix(packageRelativePath, mapping) ==
    path_relative_to(packageRelativePath, mapping.package_vfs_relative_path)

\* Whether the loop of DeVirtualizePath breaks at `mapping`: its shadow name is a
\* prefix of packageRelativePath (the path after the VFS root and its separator)
\* that ends at a separator or at the end of the path.
DeVirtualizeBreaksAt(packageRelativePath, mapping) ==
    /\ path_relative_to(packageRelativePath, mapping.package_vfs_relative_path)
    /\ LET vfsRelativePath ==
               SubstrFrom(packageRelativePath, Len(mapping.package_vfs_relative_path))
       IN  is_path_separator(At(vfsRelativePath, 1)) \/ vfsRelativePath = ""

\* The loop of DeVirtualizePath over g_vfsFolderMappings: the path is rewritten
\* with the first entry the loop breaks at.
DeVirtualizeScan(path, packageRelativePath) ==
    LET breaks == {i \in DOMAIN g_vfsFolderMappings :
                      DeVirtualizeBreaksAt(packageRelativePath, g_vfsFolderMappings[i])}
    IN  IF breaks = {} THEN path
        ELSE LET mapping == g_vfsFolderMappings[Min(breaks)]
                 vfsRelativePath ==
                     SubstrFrom(packageRelativePath, Len(mapping.package_vfs_relative_path))
             IN  NormalizedPathOf(
                     PathAppend(mapping.path,
                                IF is_path_separator(At(vfsRelativePath, 1))
                                THEN Tail(vfsRelativePath) ELSE vfsRelativePath), 0)

DeVirtualizePath(path) ==
    IF HasDriveAbsolute(path) /\ path_relative_to(DriveAbsolute(path), g_packageVfsRootPath)
    THEN LET packageRelativePath == SubstrFrom(DriveAbsolute(path), Len(g_packageVfsRootPath))
         IN  IF is_path_separator(At(packageRelativePath, 1))
             THEN DeVirtualizeScan(path, Tail(packageRelativePath))
             ELSE path
    ELSE path

\* Whether the reverse loop of VirtualizePath returns at `mapping`.
VirtualizeReturnsAt(path, mapping) == path_relative_to(path.full_path, mapping.path)

\* The reverse loop of VirtualizePath over g_vfsFolderMappings: the path is
\* rewritten with the last entry of the table the loop returns at.
VirtualizeScan(path) ==
    LET returns == {i \in DOMAIN g_vfsFolderMappings :
                       VirtualizeReturnsAt(path, g_vfsFolderMappings[i])}
    IN  IF returns = {} THEN path
        ELSE LET mapping == g_vfsFolderMappings[Max(returns)]
                 rest    == SubstrFrom(path.full_path, Len(mapping.path))
                 vfsRelativePath == IF is_path_separator(At(rest, 1)) THEN Tail(rest) ELSE rest
             IN  NormalizedPathOf(
                     PathAppend(PathAppend(g_packageVfsRootPath,
                                           mapping.package_vfs_relative_path),
                                vfsRelativePath), 0)

VirtualizePath(path) ==
    IF HasDriveAbsolute(path) /\ path_relative_to(DriveAbsolute(path), g_packageRootPath)
    THEN path
    ELSE VirtualizeScan(path)

(***************************************************************************)
(* Redirection specs (InitializeConfiguration) and the rule engine         *)
(***************************************************************************)

\* std::regex_match(s, pattern) for the ECMAScript subset the configurations
\* use: literal characters, '\c' escapes, '.', '*' after an atom, a leading '^'
\* and a trailing '$'.  The whole of s has to match.
RECURSIVE RegexMatchCore(_, _)
RegexMatchCore(s, p) ==
    IF p = "" THEN s = ""
    ELSE LET esc  == At(p, 1) = "\\"
             n    == IF esc THEN 2 ELSE 1
             lit  == IF esc THEN At(p, 2) ELSE At(p, 1)
             any  == ~esc /\ At(p, 1) = "."
             star == At(p, n + 1) = "*"
             rest == SubstrFrom(p, IF star THEN n + 1 ELSE n)
         IN  IF star
             THEN \E k \in 0..Len(s) :
                      /\ \A j \in 1..k : any \/ At(s, j) = lit
                      /\ RegexMatchCore(SubstrFrom(s, k), rest)
             ELSE /\ s # ""
                  /\ any \/ At(s, 1) = lit
                  /\ RegexMatchCore(Tail(s), rest)

regex_match(s, pattern) ==
    LET p1 == IF At(pattern, 1) = "^" THEN Tail(pattern) ELSE pattern
        p2 == IF /\ Len(p1) >= 1
                 /\ At(p1, Len(p1)) = "$"
                 /\ At(p1, Len(p1) - 1) # "\\"
              THEN SubSeq(p1, 1, Len(p1) - 1) ELSE p1
    IN  RegexMatchCore(s, p2)

path_redirection_spec(base, pattern, target, exclusion, readOnly) ==
    [base_path |-> base, pattern |-> pattern, redirect_targetbase |-> target,
     isExclusion |-> exclusion, isReadOnly |-> readOnly]

\* A "redirectTargetBase", "isExclusion" or "isReadOnly" the object does not give.
Absent == "<absent>"

\* One object of a "packageRelative", "packageDriveRelative" or "relativePaths" array.
SpecObject(base, patterns, targetBase, isExclusion, isReadOnly) ==
    [base |-> base, patterns |-> patterns, redirectTargetBase |-> targetBase,
     isExclusion |-> isExclusion, isReadOnly |-> isReadOnly]

\* The lambda initializeRedirection on one spec object: a spec per pattern.
initializeRedirection(basePath, specObject) ==
    LET path == remove_trailing_path_separators(PathAppend(basePath, specObject.base))
        redirectTargetBaseValue ==
            IF specObject.redirectTargetBase = Absent
            THEN g_writablePackageRootPath ELSE specObject.redirectTargetBase
        IsExclusionValue == specObject.isExclusion = "true"
        IsReadOnlyValue == specObject.isReadOnly = "true"
    IN  [i \in 1..Len(specObject.patterns) |->
            path_redirection_spec(path, specObject.patterns[i], redirectTargetBaseValue,
                                  IsExclusionValue, IsReadOnlyValue)]

\* path_from_known_folder_string: "" for an id it does not know.  A GUID id is
\* resolved by the system (KnownFolderOfGuid).
KnownFolderOfGuid == [Documents |-> "D:\\Users\\me"]

DocumentsGuid == "{FDD39AD0-238F-46AF-ADB4-6C85480369C7}"

path_from_known_folder_string(str) ==
    IF str \in {"SystemX86", "System", "ProgramFilesX86", "ProgramFilesCommonX86",
                "ProgramFilesX64", "ProgramFilesCommonX64", "Windows"}
    THEN known_folder[str]
    ELSE IF str = "ProgramData" THEN known_folder.ProgramData
    ELSE IF str = "LocalAppData" THEN known_folder.LocalAppData
    ELSE IF str = "RoamingAppData" THEN known_folder.RoamingAppData
    ELSE IF Len(str) >= 38 /\ At(str, 1) = "{"
    THEN (IF str = DocumentsGuid THEN KnownFolderOfGuid.Documents ELSE "")
    ELSE ""

\* std::filesystem::path::root_name of a drive-absolute path.
root_name(p) == IF iswalpha(At(p, 1)) /\ At(p, 2) = ":" THEN SubSeq(p, 1, 2) ELSE ""

\* The specs one section entry of "redirectedPaths" adds to g_redirectionSpecs.
\* entry.kind is the section; a "knownFolders" entry carries its id.
SpecsOfEntry(entry) ==
    CASE entry.kind = "packageRelative" ->
            initializeRedirection(g_packageRootPath, entry.spec)
      [] entry.kind = "packageDriveRelative" ->
            initializeRedirection(root_name(g_packageRootPath), entry.spec)
      [] entry.kind = "knownFolders" ->
            LET path == path_from_known_folder_string(entry.id)
            IN  IF path = "" THEN <<>> ELSE initializeRedirection(path, entry.spec)

RECURSIVE InitializeConfiguration(_)
InitializeConfiguration(entries) ==
    IF entries = <<>> THEN <<>>
    ELSE SpecsOfEntry(Head(entries)) \o InitializeConfiguration(Tail(entries))

\* Mutant of SpecMatches: the loop body without its `continue`, so that a base
\* that is only a string prefix of the path goes on to the pattern.
SpecMatchesWithoutContinue(redirectSpec, vfsDriveAbsolute) ==
    /\ path_relative_to(vfsDriveAbsolute, redirectSpec.base_path)
    /\ LET relativePath == SubstrFrom(vfsDriveAbsolute, Len(redirectSpec.base_path))
       IN  IF is_path_separator(At(relativePath, 1))
           THEN regex_match(Tail(relativePath), redirectSpec.pattern)
           ELSE regex_match(relativePath, redirectSpec.pattern)

\* One pass of the loop body of ShouldRedirectImpl for redirectSpec: whether the
\* spec's base is a directory-boundary prefix of the path and its pattern matches
\* the remainder.
SpecMatches(redirectSpec, vfsDriveAbsolute) ==
    /\ path_relative_to(vfsDriveAbsolute, redirectSpec.base_path)
    /\ LET relativePath == SubstrFrom(vfsDriveAbsolute, Len(redirectSpec.base_path))
       IN  IF is_path_separator(At(relativePath, 1))
           THEN regex_match(Tail(relativePath), redirectSpec.pattern)
           ELSE IF relativePath # "" THEN FALSE
           ELSE regex_match(relativePath, redirectSpec.pattern)

\* Mutant of FirstMatch: the loop without its `break`, so that the last matching
\* spec decides.
RECURSIVE LastMatch(_, _, _)
LastMatch(specs, vfsDriveAbsolute, i) ==
    IF i > Len(specs) THEN 0
    ELSE LET later == LastMatch(specs, vfsDriveAbsolute, i + 1)
         IN  IF later # 0 THEN later
             ELSE IF SpecMatches(specs[i], vfsDriveAbsolute) THEN i
             ELSE 0

\* The loop over g_redirectionSpecs from entry i on: the index of the spec the
\* loop breaks at, 0 when it runs to the end.
RECURSIVE FirstMatch(_, _, _)
FirstMatch(specs, vfsDriveAbsolute, i) ==
    IF i > Len(specs) THEN 0
    ELSE IF SpecMatches(specs[i], vfsDriveAbsolute) THEN i
    ELSE FirstMatch(specs, vfsDriveAbsolute, i + 1)

(***************************************************************************)
(* Redirection Resolver: the strings RedirectedPath computes               *)
(***************************************************************************)

\* Mutant of RedirectedBasePath: the base without its literal-path prefix.
RedirectedBasePathWithoutPrefix(destinationTargetBase) ==
    IF wcsicmpEq(destinationTargetBase, g_writablePackageRootPath)
    THEN g_writablePackageRootPath
    ELSE remove_trailing_path_separators(destinationTargetBase)

\* basePath of RedirectedPath
RedirectedBasePath(destinationTargetBase) ==
    IF wcsicmpEq(destinationTargetBase, g_writablePackageRootPath)
    THEN "\\\\?\\" \o g_writablePackageRootPath
    ELSE "\\\\?\\" \o remove_trailing_path_separators(destinationTargetBase)

\* Mutant of RedirectedRelativePath: the remainder is always taken after the
\* length of g_packageRootPath, whatever the type of the path.
RedirectedRelativePathOfOneLength(deVirtualizedPath, destinationTargetBase) ==
    LET deVirtualizedFullPath == ToLower(deVirtualizedPath.full_path) IN
    IF Contains(deVirtualizedFullPath, g_packageRootPath) THEN
        IF wcsicmpEq(destinationTargetBase, g_writablePackageRootPath)
        THEN SubstrFrom(deVirtualizedPath.full_path, Len(g_packageRootPath))
        ELSE "\\PackageCache\\" \o current_package_family_name
             \o SubstrFrom(deVirtualizedPath.full_path, Len(g_packageRootPath))
    ELSE
        LET head == IF wcsicmpEq(destinationTargetBase, g_redirectRootPath)
                    THEN "\\"
                    ELSE "\\PackageCache\\" \o current_package_family_name
                         \o "\\VFS\\PackageDrive"
            da   == DriveAbsolute(deVirtualizedPath)
        IN  head \o "\\" \o At(da, 1) \o "$" \o SubstrFrom(da, 2)

\* relativePath of RedirectedPath
RedirectedRelativePath(deVirtualizedPath, destinationTargetBase) ==
    LET deVirtualizedFullPath == ToLower(deVirtualizedPath.full_path) IN
    IF Contains(deVirtualizedFullPath, g_packageRootPath) THEN
        LET lengthPackageRootPath ==
                IF path_type(deVirtualizedFullPath) = "drive_absolute"
                THEN Len(g_packageRootPath) ELSE Len(g_finalPackageRootPath)
        IN  IF wcsicmpEq(destinationTargetBase, g_writablePackageRootPath)
            THEN SubstrFrom(deVirtualizedPath.full_path, lengthPackageRootPath)
            ELSE "\\PackageCache\\" \o current_package_family_name
                 \o SubstrFrom(deVirtualizedPath.full_path, lengthPackageRootPath)
    ELSE
        LET head == IF wcsicmpEq(destinationTargetBase, g_redirectRootPath)
                    THEN "\\"
                    ELSE "\\PackageCache\\" \o current_package_family_name
                         \o "\\VFS\\PackageDrive"
            da   == DriveAbsolute(deVirtualizedPath)
        IN  head \o "\\" \o At(da, 1) \o "$" \o SubstrFrom(da, 2)

\* std::wstring_view::npos
npos == -1

\* relativePath.find_first_of(LR"(\/)", from): a 0-based index, or npos
find_first_of_separator(s, from) ==
    LET found == {i \in from..(Len(s) - 1) : is_path_separator(At(s, i + 1))}
    IN  IF found = {} THEN npos ELSE Min(found)

\* The loop of GenerateRedirectedPath (ensureDirectoryStructure set) from pos on:
\* dirs collects the argument of each CreateDirectory call, result is the string
\* built so far.
RECURSIVE GenerateRedirectedPathLoop(_, _, _, _)
GenerateRedirectedPathLoop(relativePath, pos, result, dirs) ==
    IF pos = npos \/ pos >= Len(relativePath) THEN [dirs |-> dirs, result |-> result]
    ELSE LET found   == find_first_of_separator(relativePath, pos + 1)
             nextPos == IF found = Len(relativePath) THEN npos ELSE found
             piece   == IF nextPos = npos THEN SubstrFrom(relativePath, pos)
                        ELSE Substr(relativePath, pos, nextPos - pos)
         IN  GenerateRedirectedPathLoop(relativePath, nextPos, result \o piece,
                                        Append(dirs, result))

\* Mutant of GenerateRedirectedPath: the string it returns has lost the trailing
\* separators of relativePath.
GenerateRedirectedPathTrimmed(relativePath, ensureDirectoryStructure, result) ==
    IF ensureDirectoryStructure
    THEN [dirs   |-> GenerateRedirectedPathLoop(relativePath, 0, result, <<>>).dirs,
          result |-> remove_trailing_path_separators(result \o relativePath)]
    ELSE [dirs |-> <<>>, result |-> remove_trailing_path_separators(result \o relativePath)]

\* Mutant of GenerateRedirectedPath: the directories are asked for child first.
GenerateRedirectedPathChildFirst(relativePath, ensureDirectoryStructure, result) ==
    IF ensureDirectoryStructure
    THEN LET g == GenerateRedirectedPathLoop(relativePath, 0, result, <<>>)
         IN  [dirs   |-> [i \in DOMAIN g.dirs |-> g.dirs[Len(g.dirs) + 1 - i]],
              result |-> g.result]
    ELSE [dirs |-> <<>>, result |-> result \o relativePath]

\* GenerateRedirectedPath: the directories it asks the system to create, in
\* order, and the string it returns.
GenerateRedirectedPath(relativePath, ensureDirectoryStructure, result) ==
    IF ensureDirectoryStructure
    THEN GenerateRedirectedPathLoop(relativePath, 0, result, <<>>)
    ELSE [dirs |-> <<>>, result |-> result \o relativePath]

(***************************************************************************)
(* The filesystem the engine acts on                                       *)
(***************************************************************************)

\* The name the filesystem knows a path by: without the \\?\ prefix, case
\* folded, without trailing separators.
FsKey(p) ==
    remove_trailing_path_separators(
        ToLower(IF StartsWith(p, "\\\\?\\") THEN SubstrFrom(p, 4) ELSE p))

\* The key of the directory a key is an entry of ("" for a key with none).
ParentKey(k) ==
    LET separators == {i \in 1..Len(k) : is_path_separator(At(k, i))}
    IN  IF separators = {} THEN ""
        ELSE remove_trailing_path_separators(SubSeq(k, 1, Max(separators)))

\* What a system call needs to know of its path argument.  A path with an empty
\* component is not a valid name; a path ending in a separator names a directory.
FsName(p) ==
    [key      |-> FsKey(p),
     parent   |-> ParentKey(FsKey(p)),
     dir_only |-> p # "" /\ is_path_separator(At(p, Len(p))),
     valid    |-> ~Contains(FsKey(p), "\\\\") /\ ~Contains(FsKey(p), "//")]

IsDirectory(f, n) == n.valid /\ n.key \in f.dirs

IsFile(f, n) == n.valid /\ ~n.dir_only /\ n.key \in DOMAIN f.files

\* impl::PathExists: GetFileAttributes(path) != INVALID_FILE_ATTRIBUTES
PathExists(f, n) == IsDirectory(f, n) \/ IsFile(f, n)

\* (GetFileAttributes(path) & FILE_ATTRIBUTE_DIRECTORY) == FILE_ATTRIBUTE_DIRECTORY:
\* INVALID_FILE_ATTRIBUTES, all bits set, has the directory bit too.
HasDirectoryAttribute(f, n) == ~PathExists(f, n) \/ IsDirectory(f, n)

\* impl::CreateDirectory(path): [ok, f] with f the filesystem after the call.
CreateDirectory(f, n, fault) ==
    IF \/ fault
       \/ ~n.valid
       \/ n.key \in f.dirs
       \/ n.key \in DOMAIN f.files
       \/ n.parent \notin f.dirs
    THEN [ok |-> FALSE, f |-> f]
    ELSE [ok |-> TRUE, f |-> [f EXCEPT !.dirs = @ \cup {n.key}]]

\* impl::CreateDirectoryEx(template, newDirectory)
CreateDirectoryEx(f, template, n, fault) ==
    IF IsDirectory(f, template) THEN CreateDirectory(f, n, fault)
    ELSE [ok |-> FALSE, f |-> f]

\* Mutant of CopyFileEx: without COPY_FILE_FAIL_IF_EXISTS, a file at the
\* destination is overwritten.
CopyFileExOverwriting(f, source, n, fault) ==
    IF \/ fault
       \/ ~IsFile(f, source)
       \/ ~n.valid
       \/ n.dir_only
       \/ n.key \in f.dirs
       \/ n.parent \notin f.dirs
    THEN [ok |-> FALSE, f |-> f]
    ELSE [ok |-> TRUE,
          f  |-> [f EXCEPT !.files = (n.key :> f.files[source.key]) @@ @]]

\* impl::CopyFileEx(source, n, COPY_FILE_FAIL_IF_EXISTS)
CopyFileEx(f, source, n, fault) ==
    IF \/ fault
       \/ ~IsFile(f, source)
       \/ ~n.valid
       \/ n.dir_only
       \/ n.key \in f.dirs
       \/ n.key \in DOMAIN f.files
       \/ n.parent \notin f.dirs
    THEN [ok |-> FALSE, f |-> f]
    ELSE [ok |-> TRUE,
          f  |-> [f EXCEPT !.files = (n.key :> f.files[source.key]) @@ @]]

(***************************************************************************)
(* Configurations, initial filesystems and call inputs                     *)
(***************************************************************************)

PackageRelative(spec) == [kind |-> "packageRelative", id |-> "", spec |-> spec]

KnownFolders(id, spec) == [kind |-> "knownFolders", id |-> id, spec |-> spec]

GuidShellItem == "::{20D04FE0-3AEA-1069-A2D8-08002B30309D}"

\* Each scenario: the "redirectedPaths" of the configuration, the paths the
\* application asks about, the files that may be on disk when it starts, and the
\* directories that are.
Scenarios ==
    << \* 1: an exclusion before an inclusion under one package-relative base,
       \*    and a read-only rule for the package's copy of the Windows folder
       [entries |->
           << PackageRelative(SpecObject("data", <<".*\\.tmp">>, Absent, "true", Absent)),
              PackageRelative(SpecObject("data\\", <<".*">>, Absent, Absent, Absent)),
              PackageRelative(SpecObject("VFS\\Windows", <<".*\\.ini$">>, Absent, Absent, "true")) >>,
        paths |->
           { "C:\\Program Files\\WindowsApps\\App\\data\\cache.tmp",
             "C:\\Program Files\\WindowsApps\\App\\data\\b.txt",
             "C:\\Program Files\\WindowsApps\\App\\database\\b.txt",
             "C:\\Windows\\settings.ini",
             "C:\\Program Files\\WindowsApps\\App\\VFS\\Windows\\settings.ini",
             GuidShellItem,
             NULL },
        files |->
           { "C:\\Program Files\\WindowsApps\\App\\data\\b.txt",
             "C:\\Windows\\settings.ini" },
        dirs |->
           { "C:\\Program Files\\WindowsApps\\App\\data",
             "C:\\Program Files\\WindowsApps\\App\\database",
             "C:\\Program Files\\WindowsApps\\App\\VFS\\Windows",
             "C:\\Windows" }],
       \* 2: a known folder on another drive, redirected to a home drive; the
       \*    inclusions come before the exclusion
       [entries |->
           << KnownFolders(DocumentsGuid,
                           SpecObject("", <<".*\\.txt", ".*\\\\">>, "H:\\home\\", Absent, Absent)),
              KnownFolders(DocumentsGuid,
                           SpecObject("", <<".*">>, Absent, "true", Absent)) >>,
        paths |->
           { "D:\\Users\\me\\file.txt",
             "D:\\Users\\me\\sub\\",
             "D:/Users/me/notes.doc",
             "D:\\Users\\meme\\file.txt",
             "\\\\server\\share\\file.txt",
             "blob:0a1b2c" },
        files |-> { "D:\\Users\\me\\file.txt", "D:\\Users\\me\\sub\\" },
        dirs |-> { "D:\\Users\\me", "D:\\Users\\meme", "H:\\" }],
       \* 3: one inclusion rule for the Windows known folder; the text files of
       \*    the package's VFS folder; and those of the folder the packages are
       \*    installed in, asked for in a package whose name begins with this
       \*    package's name
       [entries |->
           << KnownFolders("Windows", SpecObject("", <<".*\\.ini$">>, Absent, Absent, Absent)),
              PackageRelative(SpecObject("VFS", <<".*\\.txt">>, Absent, Absent, Absent)),
              KnownFolders("ProgramFilesX64",
                           SpecObject("WindowsApps", <<".*\\.txt">>, Absent, Absent, Absent)) >>,
        paths |->
           { "C:\\Windows\\System32\\y.txt",
             "C:\\Program Files\\WindowsApps\\Appx\\y.txt",
             "C:\\Windows\\settings.ini",
             "C:\\Program Files\\WindowsApps\\App\\VFS\\Windows\\settings.ini",
             "file:\\C:\\Windows\\System32\\..\\win.ini",
             "\\\\.\\pipe\\settings.ini",
             "" },
        files |-> { "C:\\Windows\\settings.ini" },
        dirs |->
           { "C:\\Program Files\\WindowsApps\\App\\VFS\\Windows",
             "C:\\Windows\\System32",
             CurrentDirectory }],
       \* 4: the package's copy of the Windows folder, asked for by its real name
       \*    and by its name in the package: its .ini files go to the writable
       \*    package root, everything else to a cache on another drive
       [entries |->
           << PackageRelative(SpecObject("VFS\\Windows", <<".*\\.ini$">>, Absent, Absent, Absent)),
              PackageRelative(SpecObject("VFS\\Windows", <<".*">>, "H:\\cache\\", Absent, Absent)) >>,
        paths |->
           { "C:\\Windows\\settings.ini",
             "\\\\?\\C:\\Program Files\\WindowsApps\\App\\VFS\\Windows\\settings.ini",
             "C:\\Windows\\Media" },
        files |->
           { "C:\\Windows\\settings.ini",
             "C:\\Program Files\\WindowsApps\\App\\VFS\\Windows\\settings.ini" },
        dirs |->
           { "C:\\Program Files\\WindowsApps\\App\\VFS\\Windows\\Media",
             "C:\\Windows",
             "H:\\" }] >>

\* g_redirectionSpecs, per scenario
g_redirectionSpecs == [k \in DOMAIN Scenarios |-> InitializeConfiguration(Scenarios[k].entries)]

\* A key and the directories above it.
RECURSIVE WithAncestors(_)
WithAncestors(k) == IF k = "" THEN {} ELSE {k} \cup WithAncestors(ParentKey(k))

\* The filesystem of scenario k after InitializePaths (which creates the redirect
\* root and the writable package root), with `entries` of the scenario's files
\* on disk: an entry named with a trailing separator is a directory.  A file's
\* content is named after the file it was first written as.
InitialFs(k, entries) ==
    LET isDir(p) == is_path_separator(At(p, Len(p)))
    IN  [dirs  |-> UNION { WithAncestors(FsKey(d)) :
                             d \in Scenarios[k].dirs
                                   \cup {p \in entries : isDir(p)}
                                   \cup {g_packageRootPath, g_redirectRootPath,
                                         g_writablePackageRootPath} }
                   \cup UNION { WithAncestors(ParentKey(FsKey(p))) : p \in Scenarios[k].files },
         files |-> [key \in {FsKey(p) : p \in {q \in entries : ~isDir(q)}} |-> key]]

(***************************************************************************)
(* ShouldRedirectImpl                                                      *)
(***************************************************************************)

redirect_flags(check, copy, ensure) ==
    [check_file_presence |-> check, copy_file |-> copy, ensure_directory_structure |-> ensure]

AllFlags == {redirect_flags(a, b, c) : a \in BOOLEAN, b \in BOOLEAN, c \in BOOLEAN}

path_redirect_info(should, path, readOnly) ==
    [should_redirect |-> should, redirect_path |-> path, shouldReadonly |-> readOnly]

\* Whether UrlDecode reads its local ii before anything was stored in it.
ReadsUninitialized(path) ==
    /\ path \notin {NULL, ""}
    /\ ~IsColonColonGuid(path)
    /\ ~IsBlobColon(path)
    /\ UrlDecode(path, 65) # UrlDecode(path, 66)

\* What a call that matched no rule, or an exclusion, knows (rule 0: none matched).
NotRedirected(rule) == [rule |-> rule, redirect |-> FALSE]

\* What a call knows when RedirectedPath has its strings: the two paths to probe,
\* the directories GenerateRedirectedPath creates under ensure_directory_structure
\* (`ensured`) and the string it returns with and without it; `names` has the
\* filesystem's name of each string result.redirect_path can become.
RedirectedPlan(rule, redirectSpec, vfspath, normalizedPath, basePath, relativePath, ensured, plain) ==
    [rule           |-> rule,
     redirect       |-> TRUE,
     isReadOnly     |-> redirectSpec.isReadOnly,
     basePath       |-> basePath,
     relativePath   |-> relativePath,
     destination    |-> FsName(basePath \o relativePath),
     names          |-> [s \in {basePath \o relativePath, ensured.result, plain.result}
                           |-> FsName(s)],
     vfspath        |-> FsName(vfspath),
     normalizedPath |-> FsName(normalizedPath),
     dirs           |-> [i \in 1..Len(ensured.dirs) |-> FsName(ensured.dirs[i])],
     ensured        |-> ensured.result,
     plain          |-> plain.result]

\* RedirectedPath up to the strings it hands to GenerateRedirectedPath.
RedirectedPathPlan(rule, redirectSpec, vfspath, normalizedPath, basePath, relativePath) ==
    RedirectedPlan(rule, redirectSpec, vfspath, normalizedPath, basePath, relativePath,
                   GenerateRedirectedPath(relativePath, TRUE, basePath),
                   GenerateRedirectedPath(relativePath, FALSE, basePath))

\* The body of the rule loop at the rule it breaks at.
RulePlan(rule, specs, vfspath, normalizedPath) ==
    IF rule = 0 \/ specs[rule].isExclusion
    THEN NotRedirected(rule)
    ELSE RedirectedPathPlan(rule, specs[rule], DriveAbsolute(vfspath), DriveAbsolute(normalizedPath),
                            RedirectedBasePath(specs[rule].redirect_targetbase),
                            RedirectedRelativePath(vfspath, specs[rule].redirect_targetbase))

\* The rule loop over the virtualized path.
LoopPlan(specs, vfspath, normalizedPath) ==
    RulePlan(FirstMatch(specs, DriveAbsolute(vfspath), 1), specs, vfspath, normalizedPath)

\* ShouldRedirectImpl after NormalizePath.
NormalizedPlan(specs, normalized) ==
    IF ~HasDriveAbsolute(normalized)
    THEN NotRedirected(0)
    ELSE LoopPlan(specs, VirtualizePath(normalized), DeVirtualizePath(normalized))

\* Everything ShouldRedirectImpl computes from its path argument and the
\* configuration before it first asks the filesystem.
CallPlan(specs, path) ==
    IF path = NULL THEN NotRedirected(0) ELSE NormalizedPlan(specs, NormalizePath(path, 0))

\* The paths a scenario's calls are made with: those whose decoding reads no
\* uninitialized value, so that one plan is all a call can compute.
Inputs == [k \in DOMAIN Scenarios |-> {path \in Scenarios[k].paths : ~ReadsUninitialized(path)}]

CallPlans ==
    [x \in UNION { {<<k, path>> : path \in Inputs[k]} : k \in DOMAIN Scenarios }
       |-> CallPlan(g_redirectionSpecs[x[1]], x[2])]

Threads == {1, 2}

\* A thread that is in no call, and has returned from none.
Idle ==
    [pc |-> "idle", path |-> NULL, flags |-> redirect_flags(FALSE, FALSE, FALSE),
     fault |-> FALSE, again |-> FALSE, pos |-> 0, CopySource |-> "", attr |-> FALSE,
     result |-> path_redirect_info(FALSE, "", FALSE), made |-> {}]

\* Where a call goes on after RedirectedPath returned, and after the presence check.
AfterPresence(flags) == IF flags.copy_file THEN "copy_exists" ELSE "done"

AfterRedirectedPath(flags) ==
    IF flags.check_file_presence THEN "presence" ELSE AfterPresence(flags)

\* Mutant of PresenceOrder: the presence check asks for the destination only.
PresenceOrderDestinationOnly == <<"redirect_path">>

\* The paths the presence check asks for, in the order of its condition.
PresenceOrder == <<"redirect_path", "vfspath", "normalizedPath">>

\* Mutant of CopySource: the copy is always made from the devirtualized path.
CopySourceNormalizedOnly(f, plan) == "normalizedPath"

\* CopySource of the copy-on-redirect block: which of the plan's two paths the
\* copy is made from.
CopySource(f, plan) ==
    IF PathExists(f, plan.vfspath) THEN "vfspath" ELSE "normalizedPath"

\* Mutant of DestinationExists: RedirectedPath does not look for the destination.
DestinationNeverExists(f, plan) == FALSE

\* impl::PathExists((basePath + relativePath).c_str()) of RedirectedPath
DestinationExists(f, plan) == PathExists(f, plan.destination)

\* Entry of ShouldRedirectImpl up to its first question to the filesystem whose
\* answer it uses (PathExists in RedirectedPath).  `fault`: the system refuses
\* every directory creation and copy of this call.  `again`: the thread's
\* previous call had the same arguments.
BeginCall(plan, path, flags, fault, again) ==
    LET c == [Idle EXCEPT !.path = path, !.flags = flags, !.fault = fault, !.again = again]
    IN  IF ~plan.redirect
        THEN [c EXCEPT !.pc = "done"]
        ELSE [c EXCEPT !.pc = "RedirectedPath",
                       !.result = path_redirect_info(TRUE, "", plan.isReadOnly)]

\* The locals of a call that returns are gone.
Return(c) == [c EXCEPT !.pc = "done", !.pos = 0, !.CopySource = "", !.attr = FALSE]

Goto(c, pc) ==
    IF pc = "done" THEN Return(c)
    ELSE [c EXCEPT !.pc = pc, !.pos = IF pc = "presence" THEN 1 ELSE 0]

\* The filesystem's name of result.redirect_path.c_str() of a call that got past
\* RedirectedPath.
RedirectPathName(plan, c) == plan.names[c.result.redirect_path]

\* One system call of the call c, and what the call does with its answer:
\* [c, f], the call and the filesystem after it.
CallStep(c, f, plan) ==
    CASE c.pc = "RedirectedPath" ->
            IF DestinationExists(f, plan)
            THEN [c |-> Goto([c EXCEPT !.result.redirect_path = plan.basePath \o plan.relativePath],
                             AfterRedirectedPath(c.flags)),
                  f |-> f]
            ELSE IF c.flags.ensure_directory_structure /\ Len(plan.dirs) > 0
            THEN [c |-> [c EXCEPT !.pc = "CreateDirectory", !.pos = 1], f |-> f]
            ELSE [c |-> Goto([c EXCEPT !.result.redirect_path =
                                  IF c.flags.ensure_directory_structure
                                  THEN plan.ensured ELSE plan.plain],
                             AfterRedirectedPath(c.flags)),
                  f |-> f]
      [] c.pc = "CreateDirectory" ->
            LET r  == CreateDirectory(f, plan.dirs[c.pos], c.fault)
                c1 == IF r.ok THEN [c EXCEPT !.made = @ \cup {plan.dirs[c.pos].key}] ELSE c
            IN  IF c.pos < Len(plan.dirs)
                THEN [c |-> [c1 EXCEPT !.pos = @ + 1], f |-> r.f]
                ELSE [c |-> Goto([c1 EXCEPT !.result.redirect_path = plan.ensured],
                                 AfterRedirectedPath(c.flags)),
                      f |-> r.f]
      [] c.pc = "presence" ->
            LET n == IF PresenceOrder[c.pos] = "redirect_path"
                     THEN RedirectPathName(plan, c) ELSE plan[PresenceOrder[c.pos]]
            IN  [c |-> IF PathExists(f, n)
                       THEN Goto(c, AfterPresence(c.flags))
                       ELSE IF c.pos < Len(PresenceOrder)
                       THEN [c EXCEPT !.pos = @ + 1]
                       ELSE Return([c EXCEPT !.result.should_redirect = FALSE,
                                             !.result.redirect_path = ""]),
                 f |-> f]
      [] c.pc = "copy_exists" ->
            [c |-> IF PathExists(f, RedirectPathName(plan, c))
                   THEN Return(c)
                   ELSE [c EXCEPT !.pc = "copy_source"],
             f |-> f]
      [] c.pc = "copy_source" ->
            [c |-> [c EXCEPT !.pc = "copy_attributes",
                             !.CopySource = CopySource(f, plan)],
             f |-> f]
      [] c.pc = "copy_attributes" ->
            [c |-> [c EXCEPT !.pc = "copy",
                             !.attr = HasDirectoryAttribute(f, plan[c.CopySource])],
             f |-> f]
      [] c.pc = "copy" ->
            LET r == IF c.attr
                     THEN CreateDirectoryEx(f, plan[c.CopySource], RedirectPathName(plan, c), c.fault)
                     ELSE CopyFileEx(f, plan[c.CopySource], RedirectPathName(plan, c), c.fault)
            IN  [c |-> Return(IF r.ok
                              THEN [c EXCEPT !.made = @ \cup {RedirectPathName(plan, c).key}]
                              ELSE c),
                 f |-> r.f]

\* A call run from c to its return with no other thread in between.
RECURSIVE RunCall(_, _, _)
RunCall(c, f, plan) ==
    IF c.pc = "done" THEN [c |-> c, f |-> f]
    ELSE LET r == CallStep(c, f, plan) IN RunCall(r.c, r.f, plan)

(***************************************************************************)
(* Spec: one thread; a call of ShouldRedirect is one step                  *)
(***************************************************************************)

Init ==
    /\ cfg \in DOMAIN Scenarios
    /\ \E files \in SUBSET Scenarios[cfg].files : fs = InitialFs(cfg, files)
    /\ th = [t \in Threads |-> Idle]
    /\ pin = ""
    /\ pout = <<>>

\* Mutant of ShouldRedirect: the call builds the redirection specs anew, from
\* the next configuration.
ShouldRedirectReconfiguring(t, path, flags, fault) ==
    /\ th[t].pc \in {"idle", "done"}
    /\ LET again == th[t].pc = "done" /\ th[t].path = path /\ th[t].flags = flags
           plan  == CallPlans[<<cfg, path>>]
           r     == RunCall(BeginCall(plan, path, flags, fault, again), fs, plan)
       IN  /\ th' = [th EXCEPT ![t] = r.c]
           /\ fs' = r.f
    /\ cfg' = (cfg % Len(Scenarios)) + 1
    /\ UNCHANGED <<pin, pout>>

ShouldRedirect(t, path, flags, fault) ==
    /\ th[t].pc \in {"idle", "done"}
    /\ LET again == th[t].pc = "done" /\ th[t].path = path /\ th[t].flags = flags
           plan  == CallPlans[<<cfg, path>>]
           r     == RunCall(BeginCall(plan, path, flags, fault, again), fs, plan)
       IN  /\ th' = [th EXCEPT ![t] = r.c]
           /\ fs' = r.f
    /\ UNCHANGED <<cfg, pin, pout>>

Next ==
    \E path \in Inputs[cfg], flags \in AllFlags, fault \in BOOLEAN :
        ShouldRedirect(1, path, flags, fault)

Spec == Init /\ [][Next]_vars

(***************************************************************************)
(* SpecConc: two threads call ShouldRedirect for one path at the same      *)
(* time; a step is one system call of one of them                          *)
(***************************************************************************)

InitConc ==
    /\ cfg \in DOMAIN Scenarios
    /\ \E files \in SUBSET Scenarios[cfg].files : fs = InitialFs(cfg, files)
    /\ th = [t \in Threads |-> Idle]
    /\ pin \in Inputs[cfg]
    /\ pout = <<>>

\* The flags of the two calls: both copy and ensure the directory structure.
ConcFlags == {flags \in AllFlags : flags.copy_file /\ flags.ensure_directory_structure}

\* Thread t enters ShouldRedirect(pin, flags).
Call(t, flags, fault) ==
    /\ th[t].pc = "idle"
    /\ th' = [th EXCEPT ![t] = BeginCall(CallPlans[<<cfg, pin>>], pin, flags, fault, FALSE)]
    /\ UNCHANGED <<fs, cfg, pin, pout>>

\* Thread t makes the next system call of its call.
Step(t) ==
    /\ th[t].pc \notin {"idle", "done"}
    /\ LET r == CallStep(th[t], fs, CallPlans[<<cfg, pin>>])
       IN  /\ th' = [th EXCEPT ![t] = r.c]
           /\ fs' = r.f
    /\ UNCHANGED <<cfg, pin, pout>>

NextConc ==
    \E t \in Threads :
        \/ \E flags \in ConcFlags, fault \in BOOLEAN : Call(t, flags, fault)
        \/ Step(t)

SpecConc == InitConc /\ [][NextConc]_vars

(***************************************************************************)
(* SpecPure: NormalizePath, VirtualizePath and DeVirtualizePath applied    *)
(* one after the other to an input string, and the companion queries      *)
(***************************************************************************)

\* How many of the functions are applied in a row.
MaxOps == 3

\* What UrlDecode's uninitialized local may hold when a malformed escape reads it.
UninitValues == {0, 37, 65}

PureInputs ==
    { "C:\\Windows\\win.ini",
      "C:\\Windows\\System32\\catroot\\x.cat",
      "C:\\Windowsfoo\\x",
      "C:\\Program Files (x86)\\foo",
      "C:\\Program Files\\Common Files\\y",
      "C:\\Program Files\\WindowsApps\\App\\data\\b.txt",
      "C:\\Program Files\\WindowsApps\\App\\VFS\\Windows\\win.ini",
      "C:\\Program Files\\WindowsApps\\App\\VFS\\Windowsfoo\\x",
      "C:\\Program Files\\WindowsApps\\App\\VFS\\AppVSystem32Catroot\\x.cat",
      "C:\\Program Files\\WindowsApps\\App\\VFS\\AppVSystem32Catroot2\\y.cat",
      "C:\\Program Files\\WindowsApps\\App\\VFS",
      "C:\\Program Files\\WindowsApps\\App\\VFSx\\z",
      "C:\\Program Files\\WindowsApps\\App2\\x",
      "c:/users/me/appdata/local/z",
      "C:\\Users\\me\\AppData\\Local",
      "C:\\Users\\me\\AppData\\LocalLow\\x",
      "C:\\Users\\me\\AppData\\Roaming\\cfg.json",
      "C:\\Users\\me\\AppData\\RoamingOld\\x",
      "E:\\none\\x",
      "\\\\?\\C:\\Windows\\win.ini",
      "\\\\server\\share\\f",
      "C:\\a%2541",
      "C:\\a%20b",
      "C:\\a%zz",
      "C%3A%5Ca",
      "file:\\C:\\x\\..\\y",
      "file:/file:/C:/x",
      "File:\\C:\\x",
      "FILE:/C:/x",
      "C:\\file:\\x",
      "rel\\.\\name",
      GuidShellItem,
      "blob:0a1b2c",
      "" }

InitPure ==
    /\ cfg = 1
    /\ fs = InitialFs(1, {})
    /\ th = [t \in Threads |-> Idle]
    /\ pin \in PureInputs
    /\ pout = <<>>

\* An application of one of the functions: its name, argument and value.
Applied(op, arg, out) == [op |-> op, arg |-> arg, out |-> out]

\* The normalized_path the next function is applied to.
Last(applied) == applied[Len(applied)].out

\* The companion queries, and whether the last application was one of them: its
\* value is an answer, no path to go on with.
Queries == {"IsUnderUserAppDataLocal", "IsUnderUserAppDataRoaming"}

Answered == pout # <<>> /\ pout[Len(pout)].op \in Queries

\* NormalizePath of the input, or of the full_path of the last value.
CallNormalizePath(uninit) ==
    /\ Len(pout) < MaxOps
    /\ ~Answered
    /\ LET path == IF pout = <<>> THEN pin ELSE Last(pout).full_path
       IN  pout' = Append(pout, Applied("NormalizePath", path, NormalizePath(path, uninit)))
    /\ UNCHANGED <<fs, cfg, th, pin>>

CallVirtualizePath ==
    /\ pout # <<>>
    /\ ~Answered
    /\ Len(pout) < MaxOps
    /\ HasDriveAbsolute(Last(pout))
    /\ pout' = Append(pout, Applied("VirtualizePath", Last(pout), VirtualizePath(Last(pout))))
    /\ UNCHANGED <<fs, cfg, th, pin>>

CallDeVirtualizePath ==
    /\ pout # <<>>
    /\ ~Answered
    /\ Len(pout) < MaxOps
    /\ HasDriveAbsolute(Last(pout))
    /\ pout' = Append(pout, Applied("DeVirtualizePath", Last(pout), DeVirtualizePath(Last(pout))))
    /\ UNCHANGED <<fs, cfg, th, pin>>

\* The application asks one of the companion queries about the input.
CallIsUnderUserAppDataLocal ==
    /\ Len(pout) < MaxOps
    /\ ~Answered
    /\ pout' = Append(pout, Applied("IsUnderUserAppDataLocal", pin, IsUnderUserAppDataLocal(pin)))
    /\ UNCHANGED <<fs, cfg, th, pin>>

CallIsUnderUserAppDataRoaming ==
    /\ Len(pout) < MaxOps
    /\ ~Answered
    /\ pout' = Append(pout, Applied("IsUnderUserAppDataRoaming", pin,
                                    IsUnderUserAppDataRoaming(pin)))
    /\ UNCHANGED <<fs, cfg, th, pin>>

NextPure ==
    \/ \E uninit \in UninitValues : CallNormalizePath(uninit)
    \/ CallVirtualizePath
    \/ CallDeVirtualizePath
    \/ CallIsUnderUserAppDataLocal
    \/ CallIsUnderUserAppDataRoaming

SpecPure == InitPure /\ [][NextPure]_vars

(***************************************************************************)
(* Properties                                                              *)
(***************************************************************************)

\* The virtualized drive-absolute path the rule loop of a call is run on, NULL
\* for a call that returns before the loop.
LoopInput ==
    [x \in DOMAIN CallPlans |->
        IF x[2] = NULL \/ ~HasDriveAbsolute(NormalizePath(x[2], 0)) THEN NULL
        ELSE DriveAbsolute(VirtualizePath(NormalizePath(x[2], 0)))]

\* The rules of the list that match a call's path: base and pattern.
MatchingRules ==
    [x \in DOMAIN CallPlans |->
        IF LoopInput[x] = NULL THEN {}
        ELSE {i \in DOMAIN g_redirectionSpecs[x[1]] :
                 SpecMatches(g_redirectionSpecs[x[1]][i], LoopInput[x])}]

\* A call of thread t has returned.
Returned(t) == th[t].pc = "done"

\* C1: the decision of a call is that of the first rule of the list that matches
\* (base and pattern), inclusion or exclusion, whatever later rules say; with no
\* matching rule there is no redirect.  (The presence check may still retract an
\* inclusion's redirect.)
C1_FirstMatchWins ==
    \A t \in Threads :
        Returned(t) /\ LoopInput[<<cfg, th[t].path>>] # NULL =>
            LET specs    == g_redirectionSpecs[cfg]
                matching == MatchingRules[<<cfg, th[t].path>>]
            IN  IF matching = {} \/ specs[Min(matching)].isExclusion
                THEN ~th[t].result.should_redirect
                ELSE /\ ~th[t].flags.check_file_presence => th[t].result.should_redirect
                     /\ th[t].result.shouldReadonly = specs[Min(matching)].isReadOnly

\* C1 witness: a call returned "no redirect" for a path that an exclusion and a
\* later inclusion both match.
C1_Witness ==
    /\ Returned(1)
    /\ LoopInput[<<cfg, th[1].path>>] # NULL
    /\ \E e, i \in MatchingRules[<<cfg, th[1].path>>] :
          /\ e < i
          /\ g_redirectionSpecs[cfg][e].isExclusion
          /\ ~g_redirectionSpecs[cfg][i].isExclusion
    /\ ~th[1].result.should_redirect

\* B is a prefix of P that ends where a component of P ends.
AtDirectoryBoundary(B, P) ==
    /\ path_relative_to(P, B)
    /\ Len(P) = Len(B) \/ is_path_separator(At(P, Len(B) + 1))

\* C2: the rule that decided a call has a base that the call's (virtualized) path
\* equals or continues with a path separator; a path sharing the base only as a
\* string prefix is not decided by that rule.
C2_BaseAtDirectoryBoundary ==
    \A t \in Threads :
        Returned(t) /\ LoopInput[<<cfg, th[t].path>>] # NULL =>
            /\ CallPlans[<<cfg, th[t].path>>].rule # 0 =>
                   AtDirectoryBoundary(
                       g_redirectionSpecs[cfg][CallPlans[<<cfg, th[t].path>>].rule].base_path,
                       LoopInput[<<cfg, th[t].path>>])
            /\ th[t].result.should_redirect =>
                   \E i \in DOMAIN g_redirectionSpecs[cfg] :
                       /\ ~g_redirectionSpecs[cfg][i].isExclusion
                       /\ AtDirectoryBoundary(g_redirectionSpecs[cfg][i].base_path,
                                              LoopInput[<<cfg, th[t].path>>])

\* C2 witness: a call returned "no redirect" for a path that has the base of an
\* inclusion as a string prefix only, with a remainder its pattern matches.
C2_Witness ==
    /\ Returned(1)
    /\ LoopInput[<<cfg, th[1].path>>] # NULL
    /\ \E i \in DOMAIN g_redirectionSpecs[cfg] :
          LET B == g_redirectionSpecs[cfg][i].base_path
              P == LoopInput[<<cfg, th[1].path>>]
          IN  /\ ~g_redirectionSpecs[cfg][i].isExclusion
              /\ path_relative_to(P, B)
              /\ ~AtDirectoryBoundary(B, P)
              /\ regex_match(SubstrFrom(P, Len(B)), g_redirectionSpecs[cfg][i].pattern)
    /\ ~th[1].result.should_redirect

\* The input of the end-to-end scenario, and what VirtualizePath makes of it.
WindowsSettingsIni == "C:\\Windows\\settings.ini"

VfsWindowsSettingsIni == g_packageRootPath \o "\\VFS\\Windows\\settings.ini"

\* Two strings name the same path: equal up to case and the kind of separator.
SamePath(a, b) ==
    /\ Len(a) = Len(b)
    /\ \A i \in 1..Len(a) : path_compare(At(a, i), At(b, i))

\* C3 as the specification states it: with the single inclusion rule of base
\* C:\Windows (scenario 3), the call for C:\Windows\settings.ini is run on the
\* virtualized path, the rule matches, and the call returns a redirect to
\* \\?\<writable root>\Windows\settings.ini.
C3_EndToEnd_AsStated ==
    \A t \in Threads :
        cfg = 3 /\ Returned(t) /\ th[t].path = WindowsSettingsIni =>
            /\ SamePath(LoopInput[<<cfg, th[t].path>>], VfsWindowsSettingsIni)
            /\ th[t].result.should_redirect
            /\ th[t].result.redirect_path =
                   "\\\\?\\" \o g_writablePackageRootPath \o "\\Windows\\settings.ini"

\* C3, amended: the call for C:\Windows\settings.ini is run on the virtualized
\* path <package root>\VFS\Windows\settings.ini.  A rule whose base is the real
\* folder C:\Windows (scenario 3) does not match that path, and the call returns
\* "no redirect".  The inclusion rule of package-relative base VFS\Windows
\* (scenario 1) matches it, and the call returns a redirect to
\* \\?\<writable root>\VFS\Windows\settings.ini (unless the presence check
\* retracts it).
C3_EndToEnd ==
    \A t \in Threads :
        Returned(t) /\ th[t].path = WindowsSettingsIni =>
            /\ SamePath(LoopInput[<<cfg, th[t].path>>], VfsWindowsSettingsIni)
            /\ cfg = 3 => th[t].result = path_redirect_info(FALSE, "", FALSE)
            /\ cfg = 1 /\ ( \/ ~th[t].flags.check_file_presence
                             \/ PathExists(fs, FsName(WindowsSettingsIni)) ) =>
                   /\ th[t].result.should_redirect
                   /\ th[t].result.redirect_path =
                          "\\\\?\\" \o g_writablePackageRootPath
                                      \o "\\VFS\\Windows\\settings.ini"

\* C3 witness: the call for C:\Windows\settings.ini under the rule of base
\* VFS\Windows has returned its redirect into the writable package root.
C3_Witness ==
    /\ cfg = 1
    /\ Returned(1)
    /\ th[1].path = WindowsSettingsIni
    /\ th[1].result.should_redirect
    /\ th[1].result.redirect_path =
           "\\\\?\\" \o g_writablePackageRootPath \o "\\VFS\\Windows\\settings.ini"

\* A normalized path lies in the package tree: its drive-absolute path is the
\* package root or continues it with a separator.
InPackageTree(np) == AtDirectoryBoundary(g_packageRootPath, DriveAbsolute(np))

\* C4: when DeVirtualizePath is applied to the VirtualizePath of a drive-absolute
\* path that is not in the package tree, the result names the path it started
\* from (whether or not a mapping applies, also for a path that only shares a
\* string prefix with a mapped folder); VirtualizePath of a path in the package
\* tree is that path.
C4_RoundTrip ==
    \A i \in DOMAIN pout :
        pout[i].op = "VirtualizePath" =>
            IF InPackageTree(pout[i].arg)
            THEN pout[i].out = pout[i].arg
            ELSE i < Len(pout) /\ pout[i + 1].op = "DeVirtualizePath" =>
                    SamePath(DriveAbsolute(pout[i + 1].out), DriveAbsolute(pout[i].arg))

\* C5: NormalizePath applied to the full_path of a non-empty NormalizePath result
\* gives that result again, also for an input with percent escapes or a file:
\* prefix (inputs whose decoding reads an uninitialized value aside).
C5_NormalizeIdempotent ==
    \A i \in DOMAIN pout :
        /\ i < Len(pout)
        /\ pout[i].op = "NormalizePath"
        /\ pout[i + 1].op = "NormalizePath"
        /\ ~ReadsUninitialized(pout[i].arg)
        /\ ~ReadsUninitialized(pout[i + 1].arg)
        /\ pout[i].out.full_path # ""
        => pout[i + 1].out = pout[i].out

\* What a call computes before it asks the filesystem (thread t's last call).
PlanOf(t) == CallPlans[<<cfg, th[t].path>>]

\* The two calls of a step are one call made twice: thread 1 returns from a call
\* with the arguments of the call it returned from before.
C6_CalledTwice ==
    /\ th'[1].again
    /\ th'[1].flags.copy_file
    /\ th'[1].flags.ensure_directory_structure
    /\ CallPlans[<<cfg, th'[1].path>>].redirect

\* C6: when a call with copy_file and ensure_directory_structure for a path that
\* an inclusion rule decides is made a second time, both calls return a redirect
\* (unless the presence check retracted the first), the second returns what the
\* first returned, and with the destination on disk the second call creates and
\* copies nothing.
C6_IdempotentMaterialization ==
    [][ C6_CalledTwice =>
           /\ ~th'[1].flags.check_file_presence =>
                  th[1].result.should_redirect /\ th'[1].result.should_redirect
           /\ th[1].result.should_redirect => th'[1].result = th[1].result
           /\ PathExists(fs, CallPlans[<<cfg, th'[1].path>>].destination) =>
                  fs' = fs /\ th'[1].made = {} ]_vars

\* C6 witness: the second of two such calls has returned the redirect, having
\* made nothing, and the destination is a file the first call copied.
C6_Witness ==
    /\ Returned(1)
    /\ th[1].again
    /\ th[1].flags.copy_file
    /\ th[1].flags.ensure_directory_structure
    /\ PlanOf(1).redirect
    /\ th[1].result.should_redirect
    /\ th[1].made = {}
    /\ IsFile(fs, PlanOf(1).destination)

\* The threads whose call created the destination of the shared path.
Makers == {t \in Threads : CallPlans[<<cfg, pin>>].destination.key \in th[t].made}

\* C7: when two calls with copy_file and ensure_directory_structure for one path
\* that an inclusion rule decides have both returned, whatever the interleaving
\* of their system calls: each returns a redirect (unless its presence check
\* retracted it), both to the same redirect_path; at most one of them created the
\* destination, and a destination file was written by exactly one; with the
\* source a file and no refusal by the system, the destination file is there.
C7_ConcurrentCalls ==
    (\A t \in Threads : Returned(t)) /\ CallPlans[<<cfg, pin>>].redirect =>
        LET plan == CallPlans[<<cfg, pin>>] IN
        /\ \A t \in Threads :
              /\ ~th[t].flags.check_file_presence => th[t].result.should_redirect
              /\ th[t].result.should_redirect =>
                     th[t].result.redirect_path = plan.basePath \o plan.relativePath
        /\ Cardinality(Makers) <= 1
        /\ IsFile(fs, plan.destination) => Cardinality(Makers) = 1
        /\ ( /\ \A t \in Threads : ~th[t].fault
             /\ IsFile(fs, plan.vfspath) \/ IsFile(fs, plan.normalizedPath) ) =>
               IsFile(fs, plan.destination)

\* C7 witness: both calls have returned the redirect, each created something,
\* and the destination file was copied by one of them.
C7_Witness ==
    /\ \A t \in Threads : Returned(t) /\ th[t].result.should_redirect /\ th[t].made # {}
    /\ IsFile(fs, CallPlans[<<cfg, pin>>].destination)
    /\ Cardinality(Makers) = 1

\* The scenarios' inputs that have no drive-absolute form: a null pointer, a
\* shell item, a blob value, a UNC path and a device path that names no drive.
NoDriveAbsoluteInputs ==
    { NULL, GuidShellItem, "blob:0a1b2c", "\\\\server\\share\\file.txt",
      "\\\\.\\pipe\\settings.ini" }

\* C8: a call for an input that has no drive-absolute form returns "no redirect"
\* with an empty redirect_path, under every rule list and with every flag, and
\* has created and copied nothing.
C8_NoDriveAbsoluteNoRedirect ==
    \A t \in Threads :
        /\ Returned(t)
        /\ th[t].path \in NoDriveAbsoluteInputs \/ LoopInput[<<cfg, th[t].path>>] = NULL
        => /\ th[t].result = path_redirect_info(FALSE, "", FALSE)
           /\ th[t].made = {}

\* C8 witness: a call for a shell item has returned with every flag set, under a
\* rule list with an inclusion that matches every name below the current
\* directory.
C8_Witness ==
    /\ Returned(1)
    /\ th[1].path = GuidShellItem
    /\ th[1].flags = redirect_flags(TRUE, TRUE, TRUE)
    /\ ~th[1].result.should_redirect

\* None of the three paths of the presence check is on disk.
NoneExists(f, plan) ==
    /\ ~PathExists(f, plan.destination)
    /\ ~PathExists(f, plan.vfspath)
    /\ ~PathExists(f, plan.normalizedPath)

\* C9: a call with check_file_presence for a path that an inclusion rule decides
\* returns "no redirect" with an empty redirect_path if and only if none of the
\* destination, the VFS-form path and the devirtualized path is on disk when it
\* checks; otherwise it returns the redirect to the destination.  (The call
\* deletes nothing and returns at once when it retracts, so the disk it returns
\* with tells what it checked.)
C9_PresenceCheck ==
    \A t \in Threads :
        Returned(t) /\ th[t].flags.check_file_presence /\ PlanOf(t).redirect =>
            IF NoneExists(fs, PlanOf(t))
            THEN ~th[t].result.should_redirect /\ th[t].result.redirect_path = ""
            ELSE /\ th[t].result.should_redirect
                 /\ th[t].result.redirect_path = PlanOf(t).basePath \o PlanOf(t).relativePath
                 /\ th[t].result.shouldReadonly = PlanOf(t).isReadOnly

\* C9 witness: a call has retracted its redirect after the presence check.
C9_Witness ==
    /\ Returned(1)
    /\ th[1].flags.check_file_presence
    /\ PlanOf(1).redirect
    /\ ~th[1].result.should_redirect
    /\ NoneExists(fs, PlanOf(1))

\* C10: a call whose presence check retracted the redirect has created nothing,
\* also with ensure_directory_structure and copy_file set.
C10_RetractedManufacturesNothing ==
    \A t \in Threads :
        /\ Returned(t)
        /\ th[t].flags.check_file_presence
        /\ PlanOf(t).redirect
        /\ ~th[t].result.should_redirect
        => th[t].made = {}

(***************************************************************************)
(* C11                                                                     *)
(***************************************************************************)

\* The entries of the filesystem f are entries of g, with the content they had.
Kept(f, g) ==
    /\ f.dirs \subseteq g.dirs
    /\ \A k \in DOMAIN f.files : k \in DOMAIN g.files /\ g.files[k] = f.files[k]

\* C11: copy-on-redirect.  No call of ShouldRedirect removes an entry of the
\* filesystem or changes a file's content.  A call with copy_file whose redirect
\* stands makes its destination only if it did not exist, from the VFS-form path
\* if that exists and from the devirtualized path otherwise: a file of the
\* source's content if the source is a file, a directory if the source is a
\* directory (or if ensure_directory_structure made it); and it does make it when
\* the system refuses nothing, the source exists and the destination's parent
\* directory is there.
C11_CopyOnRedirect ==
    [][ /\ Kept(fs, fs')
        /\ LET c    == th'[1]
               plan == PlanOf(1)'
           IN  (c.flags.copy_file /\ c.result.should_redirect) =>
                 LET dest   == plan.names[c.result.redirect_path]
                     source == IF PathExists(fs, plan.vfspath)
                               THEN plan.vfspath ELSE plan.normalizedPath
                     ensured == IF c.flags.ensure_directory_structure
                                THEN {plan.dirs[i].key : i \in DOMAIN plan.dirs} ELSE {}
                 IN  /\ dest.key \in DOMAIN fs'.files \ DOMAIN fs.files =>
                            /\ IsFile(fs, source)
                            /\ fs'.files[dest.key] = fs.files[source.key]
                     /\ dest.key \in fs'.dirs \ fs.dirs =>
                            IsDirectory(fs, source) \/ dest.key \in ensured
                     /\ ( /\ ~c.fault
                          /\ PathExists(fs, source)
                          /\ dest.valid
                          /\ dest.parent \in fs'.dirs ) =>
                            PathExists(fs', dest)
                     /\ \A k \in (fs'.dirs \ fs.dirs) \cup (DOMAIN fs'.files \ DOMAIN fs.files) :
                            k = dest.key \/ k \in ensured
      ]_vars

\* A call with copy_file has returned a redirect after copying a file from the
\* VFS-form path while the devirtualized path had a file too.
C11_Witness ==
    /\ Returned(1)
    /\ th[1].flags.copy_file
    /\ th[1].result.should_redirect
    /\ LET dest == PlanOf(1).names[th[1].result.redirect_path]
       IN  /\ dest.key \in th[1].made
           /\ IsFile(fs, dest)
           /\ IsFile(fs, PlanOf(1).normalizedPath)
           /\ PlanOf(1).vfspath.key # PlanOf(1).normalizedPath.key
           /\ fs.files[dest.key] = PlanOf(1).vfspath.key

(***************************************************************************)
(* C12                                                                     *)
(***************************************************************************)

\* C12: a call during which the system refuses every directory creation and
\* copy returns (a step of Spec is a call that returned), and it returns the
\* should_redirect, redirect_path and read-only values the same call returns
\* from the same filesystem when the system refuses nothing.
C12_FailuresKeepTheAnswer ==
    [][ LET c    == th'[1]
            plan == PlanOf(1)'
        IN  c.fault =>
              /\ c.pc = "done"
              /\ c.result = RunCall(BeginCall(plan, c.path, c.flags, FALSE, c.again), fs, plan).c.result
      ]_vars

(***************************************************************************)
(* C13                                                                     *)
(***************************************************************************)

\* C13: a call with ensure_directory_structure that returns a redirect has the
\* directory structure of its destination on disk: every directory that
\* GenerateRedirectedPath was to create exists, whether the call created it or
\* found it; a creation refused for another reason than "already exists" ends
\* the call without a destination.
C13_EnsureFailureIsHardError ==
    ( /\ Returned(1)
      /\ th[1].flags.ensure_directory_structure
      /\ th[1].result.should_redirect ) =>
        \A i \in DOMAIN PlanOf(1).dirs : IsDirectory(fs, PlanOf(1).dirs[i])

(***************************************************************************)
(* C14                                                                     *)
(***************************************************************************)

\* The path RedirectedPath is called with for the path of thread t's call, and
\* the target base of the rule the call stopped at.
SourceOf(t) == VirtualizePath(NormalizePath(th[t].path, 0)).full_path

TargetBaseOf(t) == g_redirectionSpecs[cfg][PlanOf(t).rule].redirect_targetbase

\* C14: destination mapping, case A.  A call that returns a redirect for a
\* source under the package root (a drive-absolute source under package_root, any
\* other source under final_package_root) returns, with tail the source after
\* that root, \\?\<writable root><tail> when the rule's target base is the
\* writable package root, and
\* \\?\<target base without trailing separators>\PackageCache\<family name><tail>
\* when it is another root.
C14_CaseA ==
    ( /\ Returned(1)
      /\ PlanOf(1).redirect
      /\ th[1].result.should_redirect ) =>
        LET source == SourceOf(1)
            root   == IF path_type(source) = "drive_absolute"
                      THEN g_packageRootPath ELSE g_finalPackageRootPath
            tail   == SubstrFrom(source, Len(root))
        IN  AtDirectoryBoundary(root, source) =>
              th[1].result.redirect_path =
                 IF wcsicmpEq(TargetBaseOf(1), g_writablePackageRootPath)
                 THEN "\\\\?\\" \o g_writablePackageRootPath \o tail
                 ELSE "\\\\?\\" \o remove_trailing_path_separators(TargetBaseOf(1))
                      \o "\\PackageCache\\" \o current_package_family_name \o tail

\* A call for a \\?\ path under the final package root has returned a redirect
\* under the writable package root.
C14_Witness ==
    /\ Returned(1)
    /\ PlanOf(1).redirect
    /\ th[1].result.should_redirect
    /\ path_type(SourceOf(1)) = "root_local_device"
    /\ AtDirectoryBoundary(g_finalPackageRootPath, SourceOf(1))
    /\ wcsicmpEq(TargetBaseOf(1), g_writablePackageRootPath)

(***************************************************************************)
(* C15                                                                     *)
(***************************************************************************)

\* C15: destination mapping, case B.  A call that returns a redirect for a
\* source outside the package root returns the destination root \\?\<target base
\* without trailing separators>, then "\" when the target base is the redirect
\* root and \PackageCache\<family name>\VFS\PackageDrive when it is another
\* root, then \<drive letter>$<the source after its colon>.
C15_CaseB ==
    ( /\ Returned(1)
      /\ PlanOf(1).redirect
      /\ th[1].result.should_redirect ) =>
        LET vfspath == VirtualizePath(NormalizePath(th[1].path, 0))
            da      == DriveAbsolute(vfspath)
        IN  ~InPackageTree(vfspath) =>
              th[1].result.redirect_path =
                 "\\\\?\\" \o remove_trailing_path_separators(TargetBaseOf(1))
                 \o (IF wcsicmpEq(TargetBaseOf(1), g_redirectRootPath)
                     THEN "\\"
                     ELSE "\\PackageCache\\" \o current_package_family_name
                          \o "\\VFS\\PackageDrive")
                 \o "\\" \o At(da, 1) \o "$" \o SubstrFrom(da, 2)

(***************************************************************************)
(* C16                                                                     *)
(***************************************************************************)

\* The VFS aliases of the real path `real`: for each mapping whose real folder
\* it lies under, the path of the same remainder under the mapping's shadow
\* folder in the package, if DeVirtualizePath maps it to `real`.
AliasesOfReal(real) ==
    IF AtDirectoryBoundary(g_packageRootPath, real) THEN {}
    ELSE { q \in { PathAppend(g_packageVfsRootPath,
                              g_vfsFolderMappings[i].package_vfs_relative_path)
                     \o SubstrFrom(real, Len(g_vfsFolderMappings[i].path)) :
                   i \in { j \in DOMAIN g_vfsFolderMappings :
                             AtDirectoryBoundary(g_vfsFolderMappings[j].path, real) } } :
             DriveAbsolute(DeVirtualizePath(NormalizePath(q, 0))) = real }

AliasesOfNormalized(normalized) ==
    IF HasDriveAbsolute(normalized) THEN AliasesOfReal(DriveAbsolute(normalized)) ELSE {}

Aliases(p) == IF p = NULL THEN {} ELSE AliasesOfNormalized(NormalizePath(p, 0))

\* What ShouldRedirectImpl computes for the aliases of each input.
AliasPlans ==
    [x \in DOMAIN CallPlans |->
        { [path |-> q, plan |-> CallPlan(g_redirectionSpecs[x[1]], q)] : q \in Aliases(x[2]) }]

\* C16: a call for a real path under a mapped known folder returns the record
\* that the call with the same flags returns, from the same filesystem, for each
\* VFS alias of the path.
C16_AliasIndependence ==
    [][ LET c == th'[1]
        IN  \A a \in AliasPlans[<<cfg, c.path>>] :
              RunCall(BeginCall(a.plan, a.path, c.flags, c.fault, c.again), fs, a.plan).c.result
                = c.result
      ]_vars

(***************************************************************************)
(* C17                                                                     *)
(***************************************************************************)

\* C17: IsUnderUserAppDataLocal answers true exactly for the user's LocalAppData
\* folder and the paths beneath it at a directory boundary, and
\* IsUnderUserAppDataRoaming likewise for the RoamingAppData folder.
C17_CompanionQueriesExact ==
    \A i \in DOMAIN pout :
        /\ pout[i].op = "IsUnderUserAppDataLocal" =>
              (pout[i].out <=> AtDirectoryBoundary(known_folder.LocalAppData, pout[i].arg))
        /\ pout[i].op = "IsUnderUserAppDataRoaming" =>
              (pout[i].out <=> AtDirectoryBoundary(known_folder.RoamingAppData, pout[i].arg))

(***************************************************************************)
(* C18                                                                     *)
(***************************************************************************)

MappingsAbove(full) ==
    {i \in DOMAIN g_vfsFolderMappings : AtDirectoryBoundary(g_vfsFolderMappings[i].path, full)}

\* <package_vfs_root>\<shadow name>\<remainder> for the path `full` under `mapping`.
ShadowOf(full, mapping) ==
    LET rest == SubstrFrom(full, Len(mapping.path))
    IN  PathAppend(PathAppend(g_packageVfsRootPath, mapping.package_vfs_relative_path),
                   IF rest = "" THEN rest ELSE Tail(rest))

\* C19: VirtualizePath returns a path in the package tree (under the package
\* root at a directory boundary) as it is; it rewrites any other path only when
\* the real folder of some mapping is the path or continues to it with a
\* separator, with the latest such mapping of the table, to
\* <package_vfs_root>\<shadow name>\<remainder>; a path that only shares a string
\* prefix with a real folder is returned unchanged.
C19_VirtualizeAtBoundary ==
    \A i \in DOMAIN pout :
        pout[i].op = "VirtualizePath" =>
            LET arg   == pout[i].arg
                above == MappingsAbove(arg.full_path)
            IN  IF InPackageTree(arg) \/ above = {}
                THEN pout[i].out = arg
                ELSE pout[i].out.full_path =
                         ShadowOf(arg.full_path, g_vfsFolderMappings[Max(above)])

(***************************************************************************)
(* C20                                                                     *)
(***************************************************************************)

\* The place of the first path separator of s, or one past its end.
ComponentEnd(s) ==
    Min({i \in 1..Len(s) : is_path_separator(At(s, i))} \cup {Len(s) + 1})

\* What follows the VFS root and its separator in the drive-absolute path of np,
\* a path under the VFS root.
VfsRelative(np) == SubstrFrom(DriveAbsolute(np), Len(g_packageVfsRootPath) + 1)

\* The entries of the mapping table whose shadow name is the component S.
MappingsNamed(S) ==
    {i \in DOMAIN g_vfsFolderMappings :
        SamePath(g_vfsFolderMappings[i].package_vfs_relative_path, S)}

\* C20: DeVirtualizePath of a path <package_vfs_root>\<S>\<rest> is
\* <real folder>\<rest> for the first entry of the table whose shadow name is the
\* whole component S; a path under the VFS root whose first component is no
\* shadow name, the VFS root itself and a path outside the VFS root (a sibling
\* <package_root>\VFSx among them) are returned unchanged.
C20_DeVirtualizeAtBoundary ==
    \A i \in DOMAIN pout :
        pout[i].op = "DeVirtualizePath" =>
            LET arg   == pout[i].arg
                rel   == VfsRelative(arg)
                S     == SubSeq(rel, 1, ComponentEnd(rel) - 1)
                rest  == SubstrFrom(rel, ComponentEnd(rel))
                named == MappingsNamed(S)
            IN  IF AtDirectoryBoundary(g_packageVfsRootPath, DriveAbsolute(arg)) /\ named # {}
                THEN pout[i].out =
                         NormalizedPathOf(PathAppend(g_vfsFolderMappings[Min(named)].path, rest), 0)
                ELSE pout[i].out = arg

\* DeVirtualizePath has turned a path under the shadow folder AppVSystem32Catroot2
\* into the path of the same remainder under catroot2.
C20_Witness ==
    \E i \in DOMAIN pout :
        /\ pout[i].op = "DeVirtualizePath"
        /\ pout[i].arg.full_path =
               "C:\\Program Files\\WindowsApps\\App\\VFS\\AppVSystem32Catroot2\\y.cat"
        /\ pout[i].out.full_path = PathAppend(known_folder.System, "catroot2") \o "\\y.cat"

(***************************************************************************)
(* C21                                                                     *)
(***************************************************************************)

\* C21: when the destination (basePath + relativePath) exists as a thread's call
\* asks for it in RedirectedPath, the call goes on with that string as its
\* redirect_path and does not come to a CreateDirectory of RedirectedPath,
\* although ensure_directory_structure is set; the step changes nothing on disk.
C21_ExistingDestinationAsIs ==
    [][ \A t \in Threads :
          LET plan == CallPlans[<<cfg, pin>>] IN
          /\ th[t].pc = "RedirectedPath"
          /\ th'[t] # th[t]
          /\ PathExists(fs, plan.destination)
          => /\ th'[t].pc \in {"presence", "copy_exists", "done"}
             /\ th'[t].result.redirect_path = plan.basePath \o plan.relativePath
             /\ th'[t].made = {}
             /\ fs' = fs
      ]_vars

\* Thread 1, with ensure_directory_structure and directories to create, is about
\* to ask for a destination that the call of thread 2 has made.
C21_Witness ==
    /\ th[1].pc = "RedirectedPath"
    /\ th[1].flags.ensure_directory_structure
    /\ Len(CallPlans[<<cfg, pin>>].dirs) > 1
    /\ th[2].pc = "done"
    /\ CallPlans[<<cfg, pin>>].destination.key \in th[2].made
    /\ PathExists(fs, CallPlans[<<cfg, pin>>].destination)

(***************************************************************************)
(* C22                                                                     *)
(***************************************************************************)

\* The destination root and the directories along the tail: the beginnings of
\* the string basePath + relativePath, from basePath on, that a path separator
\* follows.
ProperAncestors(basePath, relativePath) ==
    LET r == basePath \o relativePath
    IN  { FsName(SubSeq(r, 1, k)) :
              k \in {j \in Len(basePath)..(Len(r) - 1) : is_path_separator(At(r, j + 1))} }

\* The destination root and the directories along the tail of each input that
\* an inclusion decides.
AncestorsOf ==
    [x \in DOMAIN CallPlans |->
        IF CallPlans[x].redirect
        THEN ProperAncestors(CallPlans[x].basePath, CallPlans[x].relativePath)
        ELSE {}]

C23_TrailingSeparatorIgnored ==
    ( /\ Returned(1)
      /\ PlanOf(1).redirect
      /\ th[1].flags.ensure_directory_structure
      /\ ~th[1].flags.copy_file
      /\ is_path_separator(At(PlanOf(1).relativePath, Len(PlanOf(1).relativePath))) )
    => PlanOf(1).destination.key \notin th[1].made

(***************************************************************************)
(* C24                                                                     *)
(***************************************************************************)

\* The string begins with file: in any letter case, followed by \ or /.
HasFileScheme(str) ==
    ToLower(Substr(str, 0, 5)) = "file:" /\ At(str, 6) \in {"\\", "/"}

\* C24: NormalizePath of a string that is no shell item and no blob value is
\* NormalizePathImpl of the percent-decoded string, without its first six
\* characters when it begins with the scheme file: in any letter case followed by
\* \ or /, and whole otherwise (also when the scheme comes later in it).
C24_FileSchemeStripped ==
    \A i \in DOMAIN pout :
        ( /\ pout[i].op = "NormalizePath"
          /\ pout[i].arg # ""
          /\ ~IsColonColonGuid(pout[i].arg)
          /\ ~IsBlobColon(pout[i].arg)
          /\ ~ReadsUninitialized(pout[i].arg) )
        => LET decoded == UrlDecode(pout[i].arg, 0)
           IN  pout[i].out = NormalizePathImpl(IF HasFileScheme(decoded)
                                               THEN SubstrFrom(decoded, 6)
                                               ELSE decoded)

(***************************************************************************)
(* C25                                                                     *)
(***************************************************************************)

\* C25: the redirect_path of a call that returns a redirect is the destination
\* root, \\?\ and the target base of the rule that decided, or lies beneath it
\* at a directory boundary, whatever the path asked for.
C25_DestinationContained ==
    Returned(1) /\ th[1].result.should_redirect =>
        AtDirectoryBoundary("\\\\?\\" \o remove_trailing_path_separators(TargetBaseOf(1)),
                            th[1].result.redirect_path)

(***************************************************************************)
(* C26                                                                     *)
(***************************************************************************)

\* C26: a call that returns "no redirect" (no rule matched, an exclusion matched,
\* no drive-absolute path, or the presence check retracted the decision) returns
\* an empty redirect_path and shouldReadonly false; a call that returns a
\* redirect returns the isReadOnly of the rule that decided as shouldReadonly.
C26_NoRedirectIsClean ==
    Returned(1) =>
        IF th[1].result.should_redirect
        THEN th[1].result.shouldReadonly = g_redirectionSpecs[cfg][PlanOf(1).rule].isReadOnly
        ELSE th[1].result.redirect_path = "" /\ ~th[1].result.shouldReadonly
====
